---- MODULE Spec2Model ----
(***************************************************************************)
(* Model of the OpenClaw gateway client (src/src/lib/openclaw/client.ts):  *)
(* the WebSocket connection manager, its challenge-response handshake,     *)
(* the request correlator and the reconnect timer.                         *)
(*                                                                         *)
(* Every connect() attempt creates exactly one WebSocket, so an attempt    *)
(* and its socket share one index.  Each action is one macrotask of the    *)
(* JavaScript event loop (an API call, a socket event, a timer callback)   *)
(* together with the promise reactions (microtasks) it triggers.           *)
(*                                                                         *)
(* The sockets follow the WebSocket interface the code is written against: *)
(* message events are delivered only while readyState is OPEN, close() on  *)
(* a connecting or open socket makes it CLOSING, send() throws on a        *)
(* connecting socket and is dropped on a closing or closed one, and a      *)
(* handler set to null is not called.  The gateway URL is well-formed, so  *)
(* the WebSocket constructor does not throw.                               *)
(*                                                                         *)
(* The second part models the reconciliation engine                        *)
(* (src/src/lib/reconcile.ts): the local store's sessions, tasks and       *)
(* agents, the debounce cache, and reconcile() as two steps, the part up   *)
(* to its await of the gateway and the synchronous rest.  The gateway      *)
(* step is abstracted to its outcome: a thrown error or the value          *)
(* listSessions() resolves with.  Spec is the client on its own;           *)
(* ReconcileSpec is the reconciliation engine over every bounded store.    *)
(*                                                                         *)
(* The third part models the two callers of reconcile(): GET               *)
(* /api/reconcile with its lock (src/src/app/api/reconcile/route.ts) and   *)
(* the first successful GET /api/openclaw/status                           *)
(* (src/src/app/api/openclaw/status/route.ts).  RouteSpec runs them over   *)
(* one drifted store while the clock advances.                             *)
(***************************************************************************)
EXTENDS Integers, Sequences, FiniteSets, TLC

\* ---------------------------------------------------------------- bounds
MaxSockets == 2     \* connection attempts (sockets) created in one run
MaxIds     == 2     \* request ids issued (authentication requests and calls)
MaxTimers  == 2     \* reconnect timers that can be outstanding at once

MaxAgents   == 2   \* rows of the agents table
MaxTasks    == 2   \* rows of the tasks table
MaxSessions == 2   \* rows of the openclaw_sessions table
MaxCalls    == 2   \* reconcile() calls made in one run
MaxDispatches == 2 \* dispatch requests made in one run
MaxSubtasks == 3   \* subtasks of the parent task
MaxPosts    == 2   \* dispatch requests issued for one subtask in one run

Socks   == 1..MaxSockets
Ids     == 1..MaxIds
Methods == {"sessions.list", "chat.send"}

\* ---------------------------------------------------------------- state
VARIABLES
  ws,               \* this.ws: index of the socket held, 0 for null
  nSock,            \* number of sockets created so far
  rs,               \* readyState of every socket
  handlers,         \* which on* handlers a socket still carries
  ctimer,           \* the connectionTimeout timer of every attempt
  promise,          \* the promise created by every attempt
  connecting,       \* this.connecting: attempt whose promise is held, 0 for null
  connected,        \* this.connected
  authenticated,    \* this.authenticated
  autoReconnect,    \* this.autoReconnect
  reconnectTimer,   \* this.reconnectTimer is set
  reconnectWait,    \* attempts a reconnect callback is awaiting (line 214)
  reqs,             \* every request ever registered, indexed by its id
  pendingRequests,  \* this.pendingRequests: the ids in the table
  awaited,          \* attempts whose promise an external connect() caller holds
  emitted,          \* events emitted (and the error thrown) by the latest step
  everConnected,    \* history: authentication has succeeded at least once
  timers,           \* delays of the reconnect setTimeout timers outstanding, oldest first
  schedLog          \* what each scheduleReconnect() call of the latest step did

vars == <<ws, nSock, rs, handlers, ctimer, promise, connecting, connected,
          authenticated, autoReconnect, reconnectTimer, reconnectWait, reqs,
          pendingRequests, awaited, emitted, everConnected, timers, schedLog>>

VARIABLES
  sessions,         \* table openclaw_sessions: agent_id, openclaw_session_id, status, task_id
  tasks,            \* table tasks: status, assigned_agent_id, dispatch_error
  agents,           \* table agents: status
  lastRunAt,        \* lastRunAt (ms)
  cachedResult,     \* cachedResult: <<>> for null, <<r>> for the result r
  clock,            \* what Date.now() returns (ms)
  rpc,              \* where every reconcile() call stands: "idle", "gateway", "done", "threw"
  returned,         \* the result the latest step returned: <<>> or <<r>>
  broadcasts,       \* the tasks the latest step broadcast as task_updated, in order
  fetched,          \* gatewaySessions as the latest step computed it: <<>> or <<list>>
  requested,        \* the client methods invoked by the call the latest step completed
  running,          \* the lock of GET /api/reconcile (route.ts line 12)
  initialReconcileDone,  \* the flag of GET /api/openclaw/status (route.ts line 5)
  via,              \* who made every reconcile() call: "none", "route", "status"
  replied           \* what GET /api/reconcile answered in the latest step: <<>> or <<reply>>

VARIABLES
  dsp,              \* every dispatch request: where it stands, its task, agent and session
  dreply            \* the HTTP status a dispatch request answered with in the latest step

VARIABLES
  subtasks,         \* the subtasks of one parent task: status and depends_on
  parentStatus,     \* the status of the parent task
  issued,           \* how many dispatch requests have been issued for every subtask
  inflight,         \* the subtasks with a dispatch request that has not completed
  posted            \* the dispatch requests the latest step issued, in order

\* The dispatch route's variables and the subtask hook's variables.
dvars == <<dsp, dreply>>
svars == <<subtasks, parentStatus, issued, inflight, posted>>

rvars == <<sessions, tasks, agents, lastRunAt, cachedResult, clock, rpc, returned,
           broadcasts, fetched, requested, running, initialReconcileDone, via,
           replied, dvars, svars>>

\* The variables of the reconciliation engine and its callers, the store aside.
evars == <<lastRunAt, cachedResult, clock, rpc, returned, fetched, requested,
           running, initialReconcileDone, via, replied>>

\* The three tables of the local store.
store == <<sessions, tasks, agents>>

sockVars == <<ws, nSock, rs, handlers, ctimer>>
flagVars == <<connected, authenticated>>

\* ---------------------------------------------------------------- frames
\* What JSON.parse of an incoming text frame yields, reduced to the fields the
\* code reads: type/event, id (0: absent), ok (FALSE: explicitly false),
\* error (present or not) and method (present or not).  Only a frame of type
\* "res" has its ok field read.
ChallengeFrame ==
  [type |-> "challenge", id |-> 0, ok |-> TRUE, err |-> FALSE, method |-> FALSE]

DataFrames ==
  [type : {"res"}, id : 0..MaxIds, ok : BOOLEAN, err : BOOLEAN, method : BOOLEAN]
    \cup
  [type : {"other"}, id : 0..MaxIds, ok : {TRUE}, err : BOOLEAN, method : BOOLEAN]

Frames == {ChallengeFrame} \cup DataFrames

\* ---------------------------------------------------------------- helpers
\* Faulty variant: isConnected() that trusts the flags and never looks at the socket
IsConnected_IgnoresReadyState ==
  connected /\ authenticated /\ ws # 0

\* isConnected()
IsConnected ==
  connected /\ authenticated /\ ws # 0 /\ rs[ws] = "OPEN"

\* Faulty variant: call() guarded by the socket handle alone
CanCall_SocketOnly ==
  ws # 0

\* The guard of call() (line 223).
CanCall ==
  ws # 0 /\ connected /\ authenticated

AlreadyConnected ==
  connected /\ ws # 0 /\ rs[ws] = "OPEN"

\* WebSocket.close(): a socket that is connecting or open starts closing.
CloseSock(r, s) ==
  IF s # 0 /\ r[s] \in {"CONNECTING", "OPEN"} THEN [r EXCEPT ![s] = "CLOSING"] ELSE r

\* resolve()/reject() of an attempt's promise: only a pending promise settles.
Settle(p, a, outcome) ==
  IF p[a] = "pending" THEN [p EXCEPT ![a] = outcome] ELSE p

\* Faulty variant: scheduleReconnect() without its guard
SchedulesTimer_Unguarded(timer, auto) ==
  TRUE

\* scheduleReconnect(): the guard of line 206 lets the call start a timer.
SchedulesTimer(timer, auto) ==
  ~(timer \/ ~auto)

\* scheduleReconnect(): the value of "a timer is set" after the call.
ScheduleReconnect(timer, auto) ==
  IF SchedulesTimer(timer, auto) THEN TRUE ELSE timer

\* The delay scheduleReconnect() passes to setTimeout (line 219), in ms.
ReconnectDelay == 10000

\* scheduleReconnect(): the outstanding timers after the call.
StartTimer(ts, timer, auto) ==
  IF SchedulesTimer(timer, auto) /\ Len(ts) < MaxTimers
    THEN Append(ts, ReconnectDelay) ELSE ts

\* scheduleReconnect(): what the call did.
Outcome(timer, auto) ==
  IF SchedulesTimer(timer, auto) THEN "scheduled"
  ELSE IF timer THEN "pending" ELSE "disabled"

\* Faulty variant: the field is reset but clearTimeout() is forgotten
ClearTimer_FieldOnly(ts, timer) ==
  ts

\* clearTimeout(this.reconnectTimer): the field holds the timer started last.
ClearTimer(ts, timer) ==
  IF timer /\ ts # <<>> THEN SubSeq(ts, 1, Len(ts) - 1) ELSE ts

\* A step that does not call scheduleReconnect() and clears no timer.
NoSchedule ==
  /\ timers' = timers
  /\ schedLog' = <<>>

\* The reconnect callbacks whose awaited attempt settled in this step run as
\* microtasks: a rejection runs the catch block, which calls scheduleReconnect().
WaitAfter(p) == {a \in reconnectWait : p[a] = "pending"}

CatchRuns(p) == \E a \in reconnectWait : p[a] \notin {"pending", "resolved"}

TimerAfter(p, timer, auto) ==
  IF CatchRuns(p)
    THEN ScheduleReconnect(timer, auto)
    ELSE timer

\* The timers and the log of a step whose only scheduleReconnect() calls are
\* those of the catch blocks run by p.
CatchSchedule(p) ==
  /\ timers' = IF CatchRuns(p)
                 THEN StartTimer(timers, reconnectTimer, autoReconnect) ELSE timers
  /\ schedLog' = IF CatchRuns(p)
                   THEN <<Outcome(reconnectTimer, autoReconnect)>> ELSE <<>>

ClientInit ==
  /\ ws = 0
  /\ nSock = 0
  /\ rs = [s \in Socks |-> "NONE"]
  /\ handlers = [s \in Socks |-> "none"]
  /\ ctimer = [s \in Socks |-> "none"]
  /\ promise = [s \in Socks |-> "none"]
  /\ connecting = 0
  /\ connected = FALSE
  /\ authenticated = FALSE
  /\ autoReconnect = TRUE
  /\ reconnectTimer = FALSE
  /\ reconnectWait = {}
  /\ reqs = <<>>
  /\ pendingRequests = {}
  /\ awaited = {}
  /\ emitted = <<>>
  /\ everConnected = FALSE
  /\ timers = <<>>
  /\ schedLog = <<>>

\* The dispatch route and the subtask hook at rest.
DispatchAtRest ==
  /\ dsp = [d \in 1..MaxDispatches |-> [pc |-> "idle", task |-> 0, agent |-> 0, sess |-> 0, made |-> FALSE]]
  /\ dreply = <<>>

SubtasksAtRest ==
  /\ subtasks = [t \in 1..MaxSubtasks |-> [status |-> "done", deps |-> {}]]
  /\ parentStatus = "review"
  /\ issued = [t \in 1..MaxSubtasks |-> 0]
  /\ inflight = {}
  /\ posted = <<>>

\* The store and the reconciliation engine at rest, while the client is studied.
StoreAtRest ==
  /\ sessions = [s \in 1..MaxSessions |->
                   [agent |-> 1, gwid |-> "s1", status |-> "ended", task |-> 0]]
  /\ tasks = [t \in 1..MaxTasks |-> [status |-> "review", agent |-> 0, error |-> "NULL"]]
  /\ agents = [a \in 1..MaxAgents |-> [status |-> "standby"]]
  /\ lastRunAt = 0
  /\ cachedResult = <<>>
  /\ clock = 0
  /\ rpc = [c \in 1..MaxCalls |-> "idle"]
  /\ returned = <<>>
  /\ broadcasts = <<>>
  /\ fetched = <<>>
  /\ requested = <<>>
  /\ running = FALSE
  /\ initialReconcileDone = FALSE
  /\ via = [c \in 1..MaxCalls |-> "none"]
  /\ replied = <<>>
  /\ DispatchAtRest
  /\ SubtasksAtRest

Init ==
  /\ ClientInit
  /\ StoreAtRest

\* ---------------------------------------------------------------- connect()
\* The synchronous part of connect(): a is the attempt whose promise the call
\* returns, 0 when it returns at once because the client is connected.
ConnectEffect(a) ==
  \/ /\ AlreadyConnected
     /\ a = 0
     /\ UNCHANGED <<sockVars, promise, connecting>>
  \/ /\ ~AlreadyConnected
     /\ connecting # 0
     /\ a = connecting
     /\ UNCHANGED <<sockVars, promise, connecting>>
  \/ /\ ~AlreadyConnected
     /\ connecting = 0
     /\ nSock < MaxSockets
     /\ a = nSock + 1
     /\ nSock' = a
     /\ rs' = [CloseSock(rs, ws) EXCEPT ![a] = "CONNECTING"]
     /\ handlers' = [(IF ws # 0 THEN [handlers EXCEPT ![ws] = "none"] ELSE handlers)
                       EXCEPT ![a] = "all"]
     /\ ws' = a
     /\ ctimer' = [ctimer EXCEPT ![a] = "armed"]
     /\ promise' = [promise EXCEPT ![a] = "pending"]
     /\ connecting' = a

\* An external caller invokes connect().
Connect ==
  /\ UNCHANGED rvars
  /\ \E a \in 0..MaxSockets :
       /\ ConnectEffect(a)
       /\ awaited' = IF a # 0 THEN awaited \cup {a} ELSE awaited
  /\ emitted' = <<>>
  /\ NoSchedule
  /\ UNCHANGED <<flagVars, autoReconnect, reconnectTimer, reconnectWait, reqs,
                 pendingRequests, everConnected>>

\* disconnect()
Disconnect ==
  /\ UNCHANGED rvars
  /\ autoReconnect' = FALSE
  /\ reconnectTimer' = FALSE
  /\ timers' = ClearTimer(timers, reconnectTimer)
  /\ schedLog' = <<>>
  /\ handlers' = IF ws # 0 THEN [handlers EXCEPT ![ws] = "noclose"] ELSE handlers
  /\ rs' = CloseSock(rs, ws)
  /\ ws' = 0
  /\ connected' = FALSE
  /\ authenticated' = FALSE
  /\ connecting' = 0
  /\ emitted' = <<>>
  /\ UNCHANGED <<nSock, ctimer, promise, reconnectWait, reqs, pendingRequests,
                 awaited, everConnected>>

\* setAutoReconnect(enabled)
SetAutoReconnect(enabled) ==
  /\ UNCHANGED rvars
  /\ autoReconnect' = enabled
  /\ reconnectTimer' = IF ~enabled THEN FALSE ELSE reconnectTimer
  /\ timers' = IF ~enabled THEN ClearTimer(timers, reconnectTimer) ELSE timers
  /\ schedLog' = <<>>
  /\ emitted' = <<>>
  /\ UNCHANGED <<sockVars, promise, connecting, flagVars, reconnectWait, reqs,
                 pendingRequests, awaited, everConnected>>

\* ---------------------------------------------------------------- timers
\* The connectionTimeout callback of attempt s (lines 62-67).
ConnTimeout(s) ==
  /\ UNCHANGED rvars
  /\ ctimer[s] = "armed"
  /\ ctimer' = [ctimer EXCEPT ![s] = "off"]
  /\ LET p == IF ~connected THEN Settle(promise, s, "rejTimeout") ELSE promise
     IN /\ promise' = p
        /\ rs' = IF ~connected THEN CloseSock(rs, ws) ELSE rs
        /\ reconnectWait' = WaitAfter(p)
        /\ reconnectTimer' = TimerAfter(p, reconnectTimer, autoReconnect)
        /\ CatchSchedule(p)
  /\ emitted' = <<>>
  /\ UNCHANGED <<ws, nSock, handlers, connecting, flagVars, autoReconnect, reqs,
                 pendingRequests, awaited, everConnected>>

\* The reconnect timer callback (lines 208-219): connect() and, when the
\* promise it returns is already rejected, the catch block.
ReconnectFire ==
  /\ UNCHANGED rvars
  /\ timers # <<>>
  /\ IF ~autoReconnect
       THEN /\ reconnectTimer' = FALSE
            /\ timers' = Tail(timers)
            /\ schedLog' = <<>>
            /\ UNCHANGED <<sockVars, promise, connecting, reconnectWait>>
       ELSE \E a \in 0..MaxSockets :
              /\ ConnectEffect(a)
              /\ reconnectWait' =
                   IF a # 0 /\ promise'[a] = "pending"
                     THEN reconnectWait \cup {a} ELSE reconnectWait
              /\ LET caught == a # 0 /\ promise'[a] \notin {"pending", "resolved"}
                 IN /\ reconnectTimer' =
                         IF caught THEN ScheduleReconnect(FALSE, autoReconnect) ELSE FALSE
                    /\ timers' =
                         IF caught THEN StartTimer(Tail(timers), FALSE, autoReconnect)
                                   ELSE Tail(timers)
                    /\ schedLog' =
                         IF caught THEN <<Outcome(FALSE, autoReconnect)>> ELSE <<>>
  /\ emitted' = <<>>
  /\ UNCHANGED <<flagVars, autoReconnect, reqs, pendingRequests, awaited,
                 everConnected>>

\* ---------------------------------------------------------------- call()
\* A request as registered: kind "auth" (the handshake request of attempt att)
\* or "call"; state is the state of the call's promise (for "auth": whether the
\* entry's resolve or reject continuation has run); error is the message of the
\* Error the promise was rejected with; timer is the 30 s timer.
Request(kind, att, method, state, error, timer) ==
  [kind |-> kind, att |-> att, method |-> method, state |-> state,
   error |-> error, timer |-> timer]

\* The message of the Error a timed-out call is rejected with (line 237).
TimeoutError(method) == "Request timeout: " \o method

\* call(method): throws at once unless CanCall; otherwise registers the
\* request, starts its timer and sends the frame.  send() throws on a socket
\* that is still connecting (the executor's throw rejects the promise) and
\* silently drops the frame on a closing or closed socket.
Call(method) ==
  /\ UNCHANGED rvars
  /\ IF ~CanCall
       THEN /\ emitted' = <<"throw: Not connected">>
            /\ UNCHANGED <<reqs, pendingRequests>>
       ELSE /\ Len(reqs) < MaxIds
            /\ emitted' = <<>>
            /\ pendingRequests' = pendingRequests \cup {Len(reqs) + 1}
            /\ reqs' = Append(reqs,
                 IF rs[ws] = "CONNECTING"
                   THEN Request("call", 0, method, "rejThrow", "InvalidStateError", "armed")
                   ELSE Request("call", 0, method, "pending", "", "armed"))
  /\ NoSchedule
  /\ UNCHANGED <<sockVars, promise, connecting, flagVars, autoReconnect,
                 reconnectTimer, reconnectWait, awaited, everConnected>>

\* The 30 s timer of call id (lines 234-239); it is never cancelled.
CallTimeout(id) ==
  /\ UNCHANGED rvars
  /\ id \in 1..Len(reqs)
  /\ reqs[id].timer = "armed"
  /\ pendingRequests' = pendingRequests \ {id}
  /\ reqs' = IF id \in pendingRequests /\ reqs[id].state = "pending"
                THEN [reqs EXCEPT ![id].timer = "fired",
                                  ![id].state = "rejTimeout",
                                  ![id].error = TimeoutError(reqs[id].method)]
                ELSE [reqs EXCEPT ![id].timer = "fired"]
  /\ emitted' = <<>>
  /\ NoSchedule
  /\ UNCHANGED <<sockVars, promise, connecting, flagVars, autoReconnect,
                 reconnectTimer, reconnectWait, awaited, everConnected>>

\* ---------------------------------------------------------------- socket events
\* Faulty variant: an open event that is taken for an established connection
SockOpen_MarksConnected(s) ==
  /\ UNCHANGED rvars
  /\ rs[s] = "CONNECTING"
  /\ rs' = [rs EXCEPT ![s] = "OPEN"]
  /\ ctimer' = IF handlers[s] # "none" /\ ctimer[s] = "armed"
                 THEN [ctimer EXCEPT ![s] = "off"] ELSE ctimer
  /\ connected' = TRUE
  /\ authenticated' = TRUE
  /\ emitted' = <<>>
  /\ NoSchedule
  /\ UNCHANGED <<ws, nSock, handlers, promise, connecting, autoReconnect,
                 reconnectTimer, reconnectWait, reqs, pendingRequests, awaited,
                 everConnected>>

\* The socket's open event: onopen only cancels the connection timer.
SockOpen(s) ==
  /\ UNCHANGED rvars
  /\ rs[s] = "CONNECTING"
  /\ rs' = [rs EXCEPT ![s] = "OPEN"]
  /\ ctimer' = IF handlers[s] # "none" /\ ctimer[s] = "armed"
                 THEN [ctimer EXCEPT ![s] = "off"] ELSE ctimer
  /\ emitted' = <<>>
  /\ NoSchedule
  /\ UNCHANGED <<ws, nSock, handlers, promise, connecting, flagVars, autoReconnect,
                 reconnectTimer, reconnectWait, reqs, pendingRequests, awaited,
                 everConnected>>

\* The peer starts the closing handshake: readyState becomes CLOSING, no handler runs.
SockPeerClosing(s) ==
  /\ UNCHANGED rvars
  /\ rs[s] = "OPEN"
  /\ rs' = [rs EXCEPT ![s] = "CLOSING"]
  /\ emitted' = <<>>
  /\ NoSchedule
  /\ UNCHANGED <<ws, nSock, handlers, ctimer, promise, connecting, flagVars,
                 autoReconnect, reconnectTimer, reconnectWait, reqs, pendingRequests,
                 awaited, everConnected>>

\* The connection fails (refused, dropped, or closed while connecting): the
\* socket is closed and its error event is dispatched; the close event follows.
SockError(s) ==
  /\ UNCHANGED rvars
  /\ rs[s] \in {"CONNECTING", "OPEN", "CLOSING"}
  /\ rs' = [rs EXCEPT ![s] = "CLOSED"]
  /\ IF handlers[s] = "none"
       THEN /\ NoSchedule
            /\ UNCHANGED <<ctimer, promise, connecting, reconnectWait, reconnectTimer,
                           emitted>>
       ELSE LET p == IF ~connected THEN Settle(promise, s, "rejError") ELSE promise
            IN /\ ctimer' = IF ctimer[s] = "armed"
                              THEN [ctimer EXCEPT ![s] = "off"] ELSE ctimer
               /\ emitted' = <<"error">>
               /\ connecting' = IF ~connected THEN 0 ELSE connecting
               /\ promise' = p
               /\ reconnectWait' = WaitAfter(p)
               /\ reconnectTimer' = TimerAfter(p, reconnectTimer, autoReconnect)
               /\ CatchSchedule(p)
  /\ UNCHANGED <<ws, nSock, handlers, flagVars, autoReconnect, reqs,
                 pendingRequests, awaited, everConnected>>

\* Faulty variant: onclose that reconnects whether or not a connection was established
ShouldReconnect_Always(wasConnected) ==
  autoReconnect

\* onclose: the condition under which it calls scheduleReconnect() (line 86).
ShouldReconnect(wasConnected) ==
  autoReconnect /\ wasConnected

\* The socket's close event ("GONE": closed, close event dispatched).
SockClose(s) ==
  /\ UNCHANGED rvars
  /\ rs[s] \in {"CLOSING", "CLOSED"}
  /\ rs' = [rs EXCEPT ![s] = "GONE"]
  /\ IF handlers[s] # "all"
       THEN /\ NoSchedule
            /\ UNCHANGED <<ctimer, connecting, flagVars, reconnectTimer, emitted>>
       ELSE /\ ctimer' = IF ctimer[s] = "armed"
                           THEN [ctimer EXCEPT ![s] = "off"] ELSE ctimer
            /\ connected' = FALSE
            /\ authenticated' = FALSE
            /\ connecting' = 0
            /\ emitted' = <<"disconnected">>
            /\ reconnectTimer' = IF ShouldReconnect(connected)
                                   THEN ScheduleReconnect(reconnectTimer, autoReconnect)
                                   ELSE reconnectTimer
            /\ timers' = IF ShouldReconnect(connected)
                           THEN StartTimer(timers, reconnectTimer, autoReconnect)
                           ELSE timers
            /\ schedLog' = IF ShouldReconnect(connected)
                             THEN <<Outcome(reconnectTimer, autoReconnect)>> ELSE <<>>
  /\ UNCHANGED <<ws, nSock, handlers, promise, autoReconnect, reconnectWait, reqs,
                 pendingRequests, awaited, everConnected>>

\* ---------------------------------------------------------------- incoming frames
\* handleMessage: does frame f settle the pending request f.id ?
Matches(f) ==
  f.id # 0 /\ f.id \in pendingRequests

\* Faulty variant: a matched request that is settled but left in the table
TableAfter_NoDelete(f) ==
  pendingRequests

\* handleMessage: the table after the matched request is deleted (lines 173, 188).
TableAfter(f) ==
  pendingRequests \ {f.id}

\* handleMessage: a matched frame rejects the request (lines 175 and 190).
IsRejection(f) ==
  IF f.type = "res" THEN (~f.ok /\ f.err) ELSE f.err

\* Faulty variant: an unmatched frame published as a generic notification only
Published_GenericOnly(f) ==
  IF f.method THEN <<"notification">> ELSE <<>>

\* handleMessage: the events published for an unmatched frame (lines 199-202).
Published(f) ==
  IF f.method THEN <<"notification", "method">> ELSE <<>>

\* A connect.challenge event: register the authentication request of attempt s
\* and send it (lines 107-149).
OnChallenge(s) ==
  /\ Len(reqs) < MaxIds
  /\ pendingRequests' = pendingRequests \cup {Len(reqs) + 1}
  /\ reqs' = Append(reqs,
       Request("auth", s, "connect", "pending", "", "none"))
  /\ emitted' = <<>>
  /\ NoSchedule
  /\ UNCHANGED <<sockVars, promise, connecting, flagVars, autoReconnect,
                 reconnectTimer, reconnectWait, everConnected>>

\* The resolve continuation of the authentication request of attempt a
\* (lines 131-138), run by a matching frame with id.
AuthResolved(id, a) ==
  /\ connected' = TRUE
  /\ authenticated' = TRUE
  /\ connecting' = 0
  /\ emitted' = <<"connected">>
  /\ everConnected' = TRUE
  /\ reqs' = [reqs EXCEPT ![id].state = "resolved"]
  /\ promise' = Settle(promise, a, "resolved")
  /\ reconnectWait' = WaitAfter(promise')
  /\ NoSchedule
  /\ UNCHANGED <<sockVars, autoReconnect, reconnectTimer>>

\* The reject continuation of the authentication request of attempt a
\* (lines 139-143).
AuthRejected(id, a) ==
  /\ connecting' = 0
  /\ rs' = CloseSock(rs, ws)
  /\ reqs' = [reqs EXCEPT ![id].state = "rejected"]
  /\ promise' = Settle(promise, a, "rejAuth")
  /\ reconnectWait' = WaitAfter(promise')
  /\ reconnectTimer' = TimerAfter(promise', reconnectTimer, autoReconnect)
  /\ CatchSchedule(promise')
  /\ emitted' = <<>>
  /\ UNCHANGED <<ws, nSock, handlers, ctimer, flagVars, autoReconnect, everConnected>>

\* The continuation of a call's promise: resolve or reject, once.
CallSettled(id, f) ==
  /\ reqs' = IF reqs[id].state # "pending" THEN reqs
                ELSE IF IsRejection(f)
                  THEN [reqs EXCEPT ![id].state = "rejError",
                                    ![id].error = "gateway error message"]
                  ELSE [reqs EXCEPT ![id].state = "resolved"]
  /\ emitted' = <<>>
  /\ NoSchedule
  /\ UNCHANGED <<sockVars, promise, connecting, flagVars, autoReconnect,
                 reconnectTimer, reconnectWait, everConnected>>

\* handleMessage(f) (lines 166-203).
HandleMessage(f) ==
  IF Matches(f)
    THEN /\ pendingRequests' = TableAfter(f)
         /\ IF reqs[f.id].kind = "auth"
              THEN IF IsRejection(f)
                     THEN AuthRejected(f.id, reqs[f.id].att)
                     ELSE AuthResolved(f.id, reqs[f.id].att)
              ELSE CallSettled(f.id, f)
    ELSE /\ emitted' = Published(f)
         /\ NoSchedule
         /\ UNCHANGED <<sockVars, promise, connecting, flagVars, autoReconnect,
                        reconnectTimer, reconnectWait, reqs, pendingRequests,
                        everConnected>>

\* The socket's message event (lines 101-156).  A message is delivered only
\* while the socket is open; the gateway can only name ids it has been sent.
SockMessage(s, f) ==
  /\ UNCHANGED rvars
  /\ rs[s] = "OPEN"
  /\ handlers[s] # "none"
  /\ f.id <= Len(reqs)
  /\ IF f.type = "challenge" THEN OnChallenge(s) ELSE HandleMessage(f)
  /\ UNCHANGED awaited

\* ---------------------------------------------------------------- specification
Next ==
  \/ Connect
  \/ Disconnect
  \/ \E enabled \in BOOLEAN : SetAutoReconnect(enabled)
  \/ \E m \in Methods : Call(m)
  \/ \E id \in Ids : CallTimeout(id)
  \/ \E s \in Socks : ConnTimeout(s)
  \/ ReconnectFire
  \/ \E s \in Socks : SockOpen(s)
  \/ \E s \in Socks : SockPeerClosing(s)
  \/ \E s \in Socks : SockError(s)
  \/ \E s \in Socks : SockClose(s)
  \/ \E s \in Socks, f \in Frames : SockMessage(s, f)

Spec == Init /\ [][Next]_<<vars, rvars>>

\* Timers that are running do fire and a socket that is closing does close;
\* the gateway and the callers owe nothing.
FairSpec ==
  /\ Spec
  /\ \A id \in Ids : WF_vars(CallTimeout(id))
  /\ \A s \in Socks : WF_vars(ConnTimeout(s))
  /\ \A s \in Socks : WF_vars(SockClose(s))
  /\ WF_vars(ReconnectFire)

\* ================================================================ reconcile.ts
AgentIds == 1..MaxAgents
TaskIds  == 1..MaxTasks
SessIds  == 1..MaxSessions
Calls    == 1..MaxCalls

\* SQL NULL in the dispatch_error column.  Every writer of the column writes
\* NULL or a non-empty text, so the empty string never occurs.
Null == "NULL"

DEBOUNCE_MS == 30000

\* The texts reconciliation writes (lines 112 and 141) and a text the dispatch
\* route leaves behind on a failed dispatch.
SessionLost      == "Session lost - agent no longer running on gateway"
AgentSessionLost == "Agent session lost"
DispatchFailed   == "Dispatch failed: Request timeout: chat.send"

\* The routing key derived from a gateway session id (lines 95, 134, 170).
SessionKey(gwid) == "agent:main:" \o gwid

\* ---------------------------------------------------------------- rows
GwIds        == {"s1", "s2"}
TaskStatuses == {"assigned", "in_progress", "review"}

\* The status set of the tasks query (line 83).
InProgressStatuses == {"in_progress", "assigned"}

SessionRows ==
  [agent : AgentIds, gwid : GwIds, status : {"active", "ended"}, task : 0..MaxTasks]
TaskRows ==
  [status : TaskStatuses, agent : 0..MaxAgents, error : {Null, DispatchFailed}]
AgentRows ==
  [status : {"standby", "working"}]

\* A ReconcileResult; error is "" when the field is absent.
Result(ran, ended, errored, reset, backfilled, error) ==
  [ran |-> ran, sessionsEnded |-> ended, tasksErrored |-> errored,
   agentsReset |-> reset, sessionsBackfilled |-> backfilled, error |-> error]

\* ---------------------------------------------------------------- gateway
\* An entry of the gateway's session list: its id and its key ("" when absent).
Entry(id, key) == [id |-> id, key |-> key]

\* The session lists the gateway answers with: nothing listed, the first
\* local session listed under its id, under its routing key, under its routing
\* key used as id, the second local session listed, both listed.
GatewayLists ==
  { {},
    {Entry("s1", "")},
    {Entry("k1", SessionKey("s1"))},
    {Entry(SessionKey("s1"), "")},
    {Entry("s2", SessionKey("s2"))},
    {Entry("s1", ""), Entry("s2", "")} }

\* What listSessions() resolves with: an array, an object with a sessions
\* array, or anything else.
RawAnswers ==
  [shape : {"array"}, list : GatewayLists]
    \cup {[shape |-> "object", list |-> {Entry("s1", "")}],
          [shape |-> "other", list |-> {}]}

\* The errors the gateway step throws.
GatewayErrors == {"Not connected to OpenClaw Gateway", "Request timeout: sessions.list"}

\* gatewaySessions as computed from the raw answer (lines 57-61).
GatewaySessions(raw) ==
  IF raw.shape \in {"array", "object"} THEN raw.list ELSE {}

\* Faulty variant: a match that forgets the routing key used as a session id
OnGateway_NoPrefixedId(gw, gwid) ==
  \/ \E g \in gw : g.id = gwid
  \/ \E g \in gw : g.key # "" /\ g.key = SessionKey(gwid)

\* The match of a local session against the lookup maps (lines 96-99).
OnGateway(gw, gwid) ==
  \/ \E g \in gw : g.id = gwid
  \/ \E g \in gw : g.key # "" /\ g.key = SessionKey(gwid)
  \/ \E g \in gw : g.id = SessionKey(gwid)

\* ---------------------------------------------------------------- the pass
\* The rows of a query in row order.
RECURSIVE Ordered(_)
Ordered(set) ==
  IF set = {} THEN <<>>
  ELSE LET m == CHOOSE x \in set : \A y \in set : x <= y
       IN <<m>> \o Ordered(set \ {m})

\* Faulty variant: a sessions query without WHERE status = 'active'
ActiveSessions_Unfiltered(snap) == Ordered(SessIds)

\* The three queries of step B (lines 79-87) on the store snap.
ActiveSessions(snap)  == Ordered({s \in SessIds : snap.S[s].status = "active"})
InProgressTasks(snap) == Ordered({t \in TaskIds : snap.T[t].status \in InProgressStatuses})
WorkingAgents(snap)   == Ordered({a \in AgentIds : snap.A[a].status = "working"})

\* Faulty variant: an UPDATE without "AND dispatch_error IS NULL"
Flagged_Overwrites(T, t, text) ==
  [T EXCEPT ![t].error = text]

\* UPDATE tasks SET dispatch_error = text WHERE id = t AND dispatch_error IS NULL.
Flagged(T, t, text) ==
  IF T[t].error = Null THEN [T EXCEPT ![t].error = text] ELSE T

\* The UPDATE and what follows it (lines 110-118 and 139-147): the row is read
\* back and, when it carries an error, pushed to tasksToNotify and counted.
FlagTask(acc, t, text) ==
  LET T1 == Flagged(acc.T, t, text)
  IN IF T1[t].error # Null
       THEN [acc EXCEPT !.T = T1,
                        !.notify = Append(@, t),
                        !.res.tasksErrored = @ + 1]
       ELSE [acc EXCEPT !.T = T1]

\* Step C (lines 94-121) over the rows seq of activeSessions.
RECURSIVE StepC(_, _, _, _)
StepC(acc, snap, gw, seq) ==
  IF seq = <<>> THEN acc
  ELSE LET s == Head(seq)
           dbSession == snap.S[s]
           ended == [acc EXCEPT !.S[s].status = "ended", !.res.sessionsEnded = @ + 1]
       IN IF OnGateway(gw, dbSession.gwid)
            THEN StepC(acc, snap, gw, Tail(seq))
            ELSE StepC(IF dbSession.task # 0
                         THEN FlagTask(ended, dbSession.task, SessionLost)
                         ELSE ended,
                       snap, gw, Tail(seq))

\* Faulty variant: a session counts as long as the snapshot calls it active
HasActiveSession_SnapshotOnly(snap, gw, agent) ==
  \E s \in SessIds :
    /\ snap.S[s].status = "active"
    /\ snap.S[s].agent = agent

\* hasActiveSession (lines 130-136 and 167-172).
HasActiveSession(snap, gw, agent) ==
  \E s \in SessIds :
    /\ snap.S[s].status = "active"
    /\ snap.S[s].agent = agent
    /\ OnGateway(gw, snap.S[s].gwid)

\* Step D (lines 124-149) over the rows seq of inProgressTasks.
RECURSIVE StepD(_, _, _, _)
StepD(acc, snap, gw, seq) ==
  IF seq = <<>> THEN acc
  ELSE LET t == Head(seq)
           task == snap.T[t]
       IN IF task.agent = 0 \/ task.error # Null
            THEN StepD(acc, snap, gw, Tail(seq))
            ELSE StepD(IF ~HasActiveSession(snap, gw, task.agent)
                         THEN FlagTask(acc, t, AgentSessionLost)
                         ELSE acc,
                       snap, gw, Tail(seq))

\* inProgressTasks.find(t => t.assigned_agent_id === agent): 0 when none.
AgentTask(snap, agent) ==
  LET found == {t \in TaskIds : /\ snap.T[t].status \in InProgressStatuses
                                /\ snap.T[t].agent = agent}
  IN IF found = {} THEN 0 ELSE CHOOSE t \in found : \A u \in found : t <= u

\* Step E (lines 152-163) over the rows seq of activeSessions.
RECURSIVE StepE(_, _, _)
StepE(acc, snap, seq) ==
  IF seq = <<>> THEN acc
  ELSE LET s == Head(seq)
           dbSession == snap.S[s]
           agentTask == AgentTask(snap, dbSession.agent)
       IN IF dbSession.task # 0 \/ agentTask = 0
            THEN StepE(acc, snap, Tail(seq))
            ELSE StepE([acc EXCEPT !.S[s].task = agentTask,
                                   !.res.sessionsBackfilled = @ + 1],
                       snap, Tail(seq))

\* Faulty variant: a check that ignores the tasks in status 'assigned'
HasInProgressTask_InProgressOnly(snap, agent) ==
  \E t \in TaskIds : /\ snap.T[t].status = "in_progress"
                     /\ snap.T[t].agent = agent

\* hasInProgressTask (line 173).
HasInProgressTask(snap, agent) ==
  \E t \in TaskIds : /\ snap.T[t].status \in InProgressStatuses
                     /\ snap.T[t].agent = agent

\* Step F (lines 166-182) over the rows seq of workingAgents.
RECURSIVE StepF(_, _, _, _)
StepF(acc, snap, gw, seq) ==
  IF seq = <<>> THEN acc
  ELSE LET a == Head(seq)
       IN IF ~HasActiveSession(snap, gw, a) /\ ~HasInProgressTask(snap, a)
            THEN StepF([acc EXCEPT !.A[a].status = "standby",
                                   !.res.agentsReset = @ + 1],
                       snap, gw, Tail(seq))
            ELSE StepF(acc, snap, gw, Tail(seq))

\* The store as the queries of step B see it.
Snapshot == [S |-> sessions, T |-> tasks, A |-> agents]

\* The state a pass starts from: the store, the fresh result (lines 40-46) and
\* an empty tasksToNotify.
Start(snap) ==
  [S |-> snap.S, T |-> snap.T, A |-> snap.A,
   res |-> Result(TRUE, 0, 0, 0, 0, ""), notify |-> <<>>]

\* The store after step C, after step D, and after the whole transaction.
AfterC(snap, gw) == StepC(Start(snap), snap, gw, ActiveSessions(snap))
AfterD(snap, gw) == StepD(AfterC(snap, gw), snap, gw, InProgressTasks(snap))
AfterE(snap, gw) == StepE(AfterD(snap, gw), snap, ActiveSessions(snap))
Pass(snap, gw)   == StepF(AfterE(snap, gw), snap, gw, WorkingAgents(snap))

\* ---------------------------------------------------------------- reconcile()
\* Faulty variant: a pass that also sends the agent its work again
GatewayRequests_Redispatch(isConn, msg) ==
  (IF isConn THEN <<>> ELSE <<"connect">>) \o <<"sessions.list", "chat.send">>

\* The client methods a call invokes up to the outcome of its gateway step
\* (lines 50-55): connect() unless isConnected(), then listSessions(), whose
\* call() sends nothing when it throws 'Not connected' (client.ts line 224).
\* msg is the error the step ends with, "" when it succeeds.
GatewayRequests(isConn, msg) ==
  (IF isConn THEN <<>> ELSE <<"connect">>)
    \o (IF msg = "Not connected to OpenClaw Gateway" THEN <<>> ELSE <<"sessions.list">>)

\* isConnected() as call c found it at line 51.  The status route calls
\* reconcile() in the continuation of its own listSessions() (status route,
\* lines 26-32), where the client is connected.
ConnectedAtEntry(c) == via[c] = "status" \/ IsConnected

\* Faulty variant: a failure result that still claims the pass ran
Failure_ClaimsRan(msg) == Result(TRUE, 0, 0, 0, 0, msg)

\* The result of the catch block (lines 62-68).
Failure(msg) == Result(FALSE, 0, 0, 0, 0, msg)

\* Faulty variant: a debounce that hands out the cached object untouched
Cached_Untouched(r) == r

\* The result of the debounce branch (line 37): { ...cachedResult, ran: false }.
Cached(r) == [r EXCEPT !.ran = FALSE]

\* The errors the local store throws.
StoreErrors == {"database is locked"}

\* The bodies GET /api/reconcile answers with (route.ts lines 14, 20 and
\* 24-28).
AlreadyRunning == [code |-> 200, body |-> [ran |-> FALSE, reason |-> "already running"]]
Answered(res)  == [code |-> 200, body |-> res]
Failed(msg)    == [code |-> 500, body |-> [ran |-> FALSE, error |-> msg]]

\* Faulty variant: a route that keeps the lock when reconcile() throws
Release_OnSuccessOnly(c, out) ==
  IF via[c] = "route"
    THEN /\ running' = (out.threw # "")
         /\ replied' = <<IF out.threw # "" THEN Failed(out.threw) ELSE Answered(out.res)>>
    ELSE /\ UNCHANGED running
         /\ replied' = <<>>

\* What the caller of call c does when the promise settles, in the same
\* macrotask: the reconcile route answers and releases its lock (route.ts lines
\* 19-30), the status route ignores the outcome (status route, line 32).  out
\* carries the result, or the message of the error thrown.
Release(c, out) ==
  IF via[c] = "route"
    THEN /\ running' = FALSE
         /\ replied' = <<IF out.threw # "" THEN Failed(out.threw) ELSE Answered(out.res)>>
    ELSE /\ UNCHANGED running
         /\ replied' = <<>>

Returns(res) == [res |-> res, threw |-> ""]
Throws(msg)  == [res |-> Failure(msg), threw |-> msg]

\* reconcile() up to its first await (lines 35-55), for whoever calls it: the
\* debounce check either returns the cached result or goes on to the gateway.
Enter(c) ==
  /\ rpc[c] = "idle"
  /\ IF c = 1 THEN TRUE ELSE rpc[c - 1] # "idle"
  /\ IF clock - lastRunAt < DEBOUNCE_MS /\ cachedResult # <<>>
       THEN /\ rpc' = [rpc EXCEPT ![c] = "done"]
            /\ returned' = <<Cached(cachedResult[1])>>
       ELSE /\ rpc' = [rpc EXCEPT ![c] = "gateway"]
            /\ returned' = <<>>
  /\ broadcasts' = <<>>
  /\ fetched' = <<>>
  /\ requested' = <<>>
  /\ UNCHANGED <<sessions, tasks, agents, lastRunAt, cachedResult, clock>>
  /\ UNCHANGED <<dvars, svars>>
  /\ UNCHANGED vars

\* A call of reconcile() whose caller is left out.
Reconcile(c) ==
  /\ Enter(c)
  /\ replied' = <<>>
  /\ UNCHANGED <<running, initialReconcileDone, via>>

\* Faulty variant: a catch block that caches the failure result
CacheAfterFailure_Stores(cache, res) == <<res>>

\* cachedResult after the catch block (lines 62-68), which returns the result
\* without assigning the cache.
CacheAfterFailure(cache, res) == cache

\* connect() or listSessions() rejects: the catch block (lines 62-68).
GatewayFails(c, msg) ==
  /\ rpc[c] = "gateway"
  /\ rpc' = [rpc EXCEPT ![c] = "done"]
  /\ returned' = <<Failure(msg)>>
  /\ broadcasts' = <<>>
  /\ fetched' = <<>>
  /\ requested' = GatewayRequests(ConnectedAtEntry(c), msg)
  /\ Release(c, Returns(Failure(msg)))
  /\ cachedResult' = CacheAfterFailure(cachedResult, Failure(msg))
  /\ UNCHANGED <<sessions, tasks, agents, lastRunAt, clock>>
  /\ UNCHANGED <<initialReconcileDone, via>>
  /\ UNCHANGED <<dvars, svars>>
  /\ UNCHANGED vars

\* listSessions() resolves with raw: the rest of reconcile() runs without
\* another await (lines 57-61 and 70-205).
GatewayAnswers(c, raw) ==
  /\ rpc[c] = "gateway"
  /\ \E done \in {Pass(Snapshot, GatewaySessions(raw))} :
       /\ sessions' = done.S
       /\ tasks' = done.T
       /\ agents' = done.A
       /\ broadcasts' = done.notify
       /\ returned' = <<done.res>>
       /\ cachedResult' = <<done.res>>
       /\ Release(c, Returns(done.res))
  /\ fetched' = <<GatewaySessions(raw)>>
  /\ requested' = GatewayRequests(ConnectedAtEntry(c), "")
  /\ lastRunAt' = clock
  /\ rpc' = [rpc EXCEPT ![c] = "done"]
  /\ UNCHANGED clock
  /\ UNCHANGED <<initialReconcileDone, via>>
  /\ UNCHANGED <<dvars, svars>>
  /\ UNCHANGED vars

\* listSessions() resolves and the local store then throws msg, in a query of
\* step B or inside the transaction (lines 79-183).  Nothing in reconcile()
\* catches it: the transaction is rolled back, the promise rejects, and the
\* lines after the transaction (broadcast, debounce cache) do not run.
StoreThrows(c, msg) ==
  /\ rpc[c] = "gateway"
  /\ rpc' = [rpc EXCEPT ![c] = "threw"]
  /\ returned' = <<>>
  /\ broadcasts' = <<>>
  /\ fetched' = <<>>
  /\ requested' = GatewayRequests(ConnectedAtEntry(c), "")
  /\ Release(c, Throws(msg))
  /\ UNCHANGED <<sessions, tasks, agents, lastRunAt, cachedResult, clock>>
  /\ UNCHANGED <<initialReconcileDone, via>>
  /\ UNCHANGED <<dvars, svars>>
  /\ UNCHANGED vars

\* The stores a run starts from.  Row 1 of each table is free (the first
\* session is active and belongs to agent 1); a further session is linked to no
\* task or to task 1, a further task carries no error and is in progress or in
\* review.  Ended sessions linked anywhere and further error texts are reached
\* by the passes themselves.
ReconcileInit ==
  /\ ClientInit
  /\ sessions \in [SessIds -> SessionRows]
  /\ sessions[1].agent = 1 /\ sessions[1].gwid = "s1" /\ sessions[1].status = "active"
  /\ \A s \in SessIds \ {1} : sessions[s].gwid = "s2" /\ sessions[s].task \in {0, 1}
  /\ tasks \in [TaskIds -> TaskRows]
  /\ \A t \in TaskIds \ {1} :
       tasks[t].error = Null /\ tasks[t].status \in {"in_progress", "review"}
  /\ agents \in [AgentIds -> AgentRows]
  /\ lastRunAt = 0
  /\ cachedResult = <<>>
  /\ clock = DEBOUNCE_MS
  /\ rpc = [c \in Calls |-> "idle"]
  /\ returned = <<>>
  /\ broadcasts = <<>>
  /\ fetched = <<>>
  /\ requested = <<>>
  /\ running = FALSE
  /\ initialReconcileDone = FALSE
  /\ via = [c \in Calls |-> "none"]
  /\ replied = <<>>
  /\ DispatchAtRest
  /\ SubtasksAtRest

ReconcileNext ==
  \/ \E c \in Calls : Reconcile(c)
  \/ \E c \in Calls, msg \in GatewayErrors : GatewayFails(c, msg)
  \/ \E c \in Calls, raw \in RawAnswers : GatewayAnswers(c, raw)
  \/ \E c \in Calls, msg \in StoreErrors : StoreThrows(c, msg)

ReconcileSpec == ReconcileInit /\ [][ReconcileNext]_<<vars, rvars>>

\* ---------------------------------------------------------------- the routes
TickMs   == 15000   \* what the clock advances by in one step
MaxTicks == 3       \* clock steps in one run

\* Time passes.
Tick ==
  /\ clock < DEBOUNCE_MS + MaxTicks * TickMs
  /\ clock' = clock + TickMs
  /\ returned' = <<>>
  /\ broadcasts' = <<>>
  /\ fetched' = <<>>
  /\ requested' = <<>>
  /\ replied' = <<>>
  /\ UNCHANGED <<sessions, tasks, agents, lastRunAt, cachedResult, rpc>>
  /\ UNCHANGED <<running, initialReconcileDone, via>>
  /\ UNCHANGED <<dvars, svars>>
  /\ UNCHANGED vars

\* GET /api/reconcile (route.ts lines 12-30) up to its await: a request that
\* finds the lock taken answers at once; otherwise it takes the lock and calls
\* reconcile(), and when that returns from its debounce branch the request
\* answers and releases the lock in the same macrotask.
RouteGet(c) ==
  IF running
    THEN /\ replied' = <<AlreadyRunning>>
         /\ returned' = <<>>
         /\ broadcasts' = <<>>
         /\ fetched' = <<>>
         /\ requested' = <<>>
         /\ UNCHANGED <<sessions, tasks, agents, lastRunAt, cachedResult, clock, rpc>>
         /\ UNCHANGED <<running, initialReconcileDone, via>>
         /\ UNCHANGED <<dvars, svars>>
  /\ UNCHANGED vars
    ELSE /\ Enter(c)
         /\ via' = [via EXCEPT ![c] = "route"]
         /\ IF rpc'[c] = "done"
              THEN /\ running' = FALSE
                   /\ replied' = <<Answered(returned'[1])>>
              ELSE /\ running' = TRUE
                   /\ replied' = <<>>
         /\ UNCHANGED initialReconcileDone

\* GET /api/openclaw/status after its listSessions() resolved (status route,
\* lines 26-33): the first such request calls reconcile() and does not wait.
StatusGet(c) ==
  /\ ~initialReconcileDone
  /\ initialReconcileDone' = TRUE
  /\ Enter(c)
  /\ via' = [via EXCEPT ![c] = "status"]
  /\ replied' = <<>>
  /\ UNCHANGED running

\* One drifted store: an active session of agent 1 that is linked to task 1 or
\* to no task, a task in progress for agent 1, agent 1 working.
RouteInit ==
  /\ ClientInit
  /\ sessions \in [SessIds -> SessionRows]
  /\ sessions[1].agent = 1 /\ sessions[1].gwid = "s1" /\ sessions[1].status = "active"
  /\ sessions[1].task \in {0, 1}
  /\ \A s \in SessIds \ {1} :
       sessions[s] = [agent |-> 2, gwid |-> "s2", status |-> "ended", task |-> 0]
  /\ tasks = [t \in TaskIds |->
                IF t = 1 THEN [status |-> "in_progress", agent |-> 1, error |-> Null]
                         ELSE [status |-> "review", agent |-> 0, error |-> Null]]
  /\ agents = [a \in AgentIds |-> [status |-> IF a = 1 THEN "working" ELSE "standby"]]
  /\ lastRunAt = 0
  /\ cachedResult = <<>>
  /\ clock = DEBOUNCE_MS
  /\ rpc = [c \in Calls |-> "idle"]
  /\ returned = <<>>
  /\ broadcasts = <<>>
  /\ fetched = <<>>
  /\ requested = <<>>
  /\ running = FALSE
  /\ initialReconcileDone = FALSE
  /\ via = [c \in Calls |-> "none"]
  /\ replied = <<>>
  /\ DispatchAtRest
  /\ SubtasksAtRest

RouteNext ==
  \/ \E c \in Calls : RouteGet(c)
  \/ \E c \in Calls : StatusGet(c)
  \/ \E c \in Calls, msg \in GatewayErrors : GatewayFails(c, msg)
  \/ \E c \in Calls, raw \in RawAnswers : GatewayAnswers(c, raw)
  \/ \E c \in Calls, msg \in StoreErrors : StoreThrows(c, msg)
  \/ Tick

RouteSpec == RouteInit /\ [][RouteNext]_<<vars, rvars>>

\* ================================================================ dispatch
\* POST /api/tasks/[id]/dispatch (src/src/app/api/tasks/[id]/dispatch/route.ts).
\* A request runs in up to three macrotasks: up to the await of connect()
\* (skipped when the client is connected), from there to the await of
\* chat.send, and the rest.  The tasks of this part have no subtasks, and the
\* agent of a task exists.
Dispatches == 1..MaxDispatches

\* A row of openclaw_sessions that has not been inserted yet.
NoRow == [agent |-> 1, gwid |-> "s1", status |-> "absent", task |-> 0]

\* openclaw_session_id of the session the route creates for an agent (line
\* 94): 'mission-control-' and the agent's name.
AgentSession(a) == IF a = 1 THEN "s1" ELSE "s2"

\* The errors chat.send is rejected with.
ChatErrors == {"Request timeout: chat.send", "agent unavailable"}

\* The text the catch block records (line 270).
DispatchError(msg) == "Dispatch failed: " \o msg

\* Faulty variant: a lookup that finds no session
FindSession_None(S, a) == 0

\* The agent's active session (lines 84-87): the first such row, 0 if none.
FindSession(S, a) ==
  LET rows == {s \in SessIds : S[s].status = "active" /\ S[s].agent = a}
  IN IF rows = {} THEN 0 ELSE CHOOSE s \in rows : \A r \in rows : s <= r

\* The row an INSERT fills: the first one not in use, 0 if the table is full.
FreeRow(S) ==
  LET rows == {s \in SessIds : S[s].status = "absent"}
  IN IF rows = {} THEN 0 ELSE CHOOSE s \in rows : \A r \in rows : s <= r

\* Faulty variant: a catch block that answers without recording the error
Errored_NotRecorded(T, t, msg) == T

\* UPDATE tasks SET dispatch_error = 'Dispatch failed: ...' WHERE id = t
\* (lines 268-271).
Errored(T, t, msg) == [T EXCEPT ![t].error = DispatchError(msg)]

Standing(d, pc) == [dsp EXCEPT ![d].pc = pc]

\* Lines 83-217 for dispatch d of task t to agent a: get or create the
\* agent's session, point it at the task, send chat.send and wait.  made
\* records that the session row was inserted by this dispatch.
SessionAndSend(d, t, a) ==
  \E found \in {FindSession(sessions, a)} :
  \E s \in {IF found # 0 THEN found ELSE FreeRow(sessions)} :
    /\ s # 0
    /\ sessions' = [sessions EXCEPT ![s] =
                      IF found # 0
                        THEN [@ EXCEPT !.task = t]
                        ELSE [agent |-> a, gwid |-> AgentSession(a),
                              status |-> "active", task |-> t]]
    /\ dsp' = [dsp EXCEPT ![d] = [pc |-> "send", task |-> t, agent |-> a, sess |-> s,
                                   made |-> (found = 0)]]
    /\ dreply' = <<>>
    /\ broadcasts' = <<>>
    /\ UNCHANGED <<tasks, agents>>

\* The request arrives (lines 20-81): a task without an agent is refused;
\* with the client connected the request goes on to the session at once,
\* otherwise it awaits connect().
DispatchPost(d, t, isConn) ==
  /\ dsp[d].pc = "idle"
  /\ IF d = 1 THEN TRUE ELSE dsp[d - 1].pc # "idle"
  /\ IF tasks[t].agent = 0
       THEN /\ dsp' = [dsp EXCEPT ![d] = [pc |-> "done", task |-> t, agent |-> 0, sess |-> 0,
                                            made |-> FALSE]]
            /\ dreply' = <<400>>
            /\ broadcasts' = <<>>
            /\ UNCHANGED store
       ELSE IF isConn
         THEN SessionAndSend(d, t, tasks[t].agent)
         ELSE /\ dsp' = [dsp EXCEPT ![d] = [pc |-> "connect", task |-> t,
                                            agent |-> tasks[t].agent, sess |-> 0,
                                            made |-> FALSE]]
              /\ dreply' = <<>>
              /\ broadcasts' = <<>>
              /\ UNCHANGED store
  /\ UNCHANGED <<evars, svars>>
  /\ UNCHANGED vars

\* connect() resolves (line 72).
DispatchConnected(d) ==
  /\ dsp[d].pc = "connect"
  /\ SessionAndSend(d, dsp[d].task, dsp[d].agent)
  /\ UNCHANGED <<evars, svars>>
  /\ UNCHANGED vars

\* connect() rejects (lines 74-80).
DispatchConnectFails(d) ==
  /\ dsp[d].pc = "connect"
  /\ dsp' = Standing(d, "done")
  /\ dreply' = <<503>>
  /\ broadcasts' = <<>>
  /\ UNCHANGED store
  /\ UNCHANGED <<evars, svars>>
  /\ UNCHANGED vars

\* chat.send resolves (lines 219-262).
ChatResolves(d) ==
  /\ dsp[d].pc = "send"
  /\ tasks' = [tasks EXCEPT ![dsp[d].task].status = "in_progress",
                            ![dsp[d].task].error = Null]
  /\ agents' = [agents EXCEPT ![dsp[d].agent].status = "working"]
  /\ broadcasts' = <<dsp[d].task>>
  /\ dsp' = Standing(d, "done")
  /\ dreply' = <<200>>
  /\ UNCHANGED sessions
  /\ UNCHANGED <<evars, svars>>
  /\ UNCHANGED vars

\* chat.send rejects with msg: the catch block (lines 263-281).
ChatRejects(d, msg) ==
  /\ dsp[d].pc = "send"
  /\ tasks' = Errored(tasks, dsp[d].task, msg)
  /\ broadcasts' = <<dsp[d].task>>
  /\ dsp' = Standing(d, "done")
  /\ dreply' = <<500>>
  /\ UNCHANGED <<sessions, agents>>
  /\ UNCHANGED <<evars, svars>>
  /\ UNCHANGED vars

\* The stores dispatching starts from: every agent has at most one active
\* session; the first task is assigned to agent 1, the second to either agent
\* or to none; a session row is absent, ended, or the active session of the
\* agent with its number.
DispatchInit ==
  /\ ClientInit
  /\ sessions \in [SessIds ->
       {NoRow} \cup [agent : AgentIds, gwid : GwIds, status : {"active", "ended"},
                     task : {0}]]
  /\ \A s \in SessIds :
       sessions[s].status # "absent"
       => (sessions[s].agent = s /\ sessions[s].gwid = AgentSession(s))
  /\ tasks \in [TaskIds -> [status : {"assigned"}, agent : 0..MaxAgents,
                            error : {Null, DispatchFailed}]]
  /\ tasks[1].agent = 1
  /\ \A t \in TaskIds \ {1} : tasks[t].error = Null
  /\ agents = [a \in AgentIds |-> [status |-> "standby"]]
  /\ lastRunAt = 0
  /\ cachedResult = <<>>
  /\ clock = DEBOUNCE_MS
  /\ rpc = [c \in Calls |-> "idle"]
  /\ returned = <<>>
  /\ broadcasts = <<>>
  /\ fetched = <<>>
  /\ requested = <<>>
  /\ running = FALSE
  /\ initialReconcileDone = FALSE
  /\ via = [c \in Calls |-> "none"]
  /\ replied = <<>>
  /\ DispatchAtRest
  /\ SubtasksAtRest

\* A reconcile() step leaves the dispatch requests where they stand.  One
\* reconciliation pass runs beside the dispatches.
Reconciling ==
  \/ Reconcile(1)
  \/ \E msg \in GatewayErrors : GatewayFails(1, msg)
  \/ \E raw \in RawAnswers : GatewayAnswers(1, raw)

DispatchNext ==
  \/ \E d \in Dispatches, t \in TaskIds, isConn \in BOOLEAN : DispatchPost(d, t, isConn)
  \/ \E d \in Dispatches : DispatchConnected(d)
  \/ \E d \in Dispatches : DispatchConnectFails(d)
  \/ \E d \in Dispatches : ChatResolves(d)
  \/ \E d \in Dispatches, msg \in ChatErrors : ChatRejects(d, msg)
  \/ Reconciling /\ dreply' = dreply

DispatchSpec == DispatchInit /\ [][DispatchNext]_<<vars, rvars>>

\* ================================================================ subtasks
\* onSubtaskCompleted (src/src/lib/subtasks.ts) over the subtasks of one parent
\* task.  The function has no await: a call is one step.  Its caller is not
\* part of the sources; by the function's doc comment (lines 7-12) it is
\* called when a subtask reaches 'review' or 'done', so a step is the write of
\* that status followed by the call.
Subtasks == 1..MaxSubtasks

\* A task id that is not a subtask of the parent.
Stranger == 0

Finished == {"review", "done"}

\* Faulty variant: siblings at work count as completed
CompletedIds_AtWork(S) == {t \in Subtasks : S[t].status \in Finished \cup {"in_progress"}}

\* completedIds (lines 24-28).
CompletedIds(S) == {t \in Subtasks : S[t].status \in Finished}

\* The test of the loop body (lines 34-46).
Unblocked(S, t) ==
  /\ S[t].status = "inbox"
  /\ S[t].deps # {}
  /\ S[t].deps \subseteq CompletedIds(S)

\* The siblings the loop posts a dispatch for, in the order of the loop.
ToDispatch(S) ==
  LET Test(t) == Unblocked(S, t)
  IN SelectSeq([i \in 1..MaxSubtasks |-> i], Test)

\* allDone (line 66).
AllDone(S) == \A t \in Subtasks : S[t].status \in Finished

Range(q) == {q[i] : i \in 1..Len(q)}

\* Subtask t reaches status st and onSubtaskCompleted(t) runs (lines 13-79):
\* a dispatch is posted for every unblocked sibling, and the parent moves to
\* 'review' and is broadcast when all siblings are finished.
SubtaskCompleted(t, st) ==
  /\ \/ subtasks[t].status = "in_progress" /\ st \in Finished
     \/ subtasks[t].status = "review" /\ st = "done"
  /\ \E S \in {[subtasks EXCEPT ![t].status = st]} :
     \E post \in {ToDispatch(S)} :
       /\ \A u \in Range(post) : issued[u] < MaxPosts
       /\ subtasks' = S
       /\ posted' = post
       /\ issued' = [u \in Subtasks |-> IF u \in Range(post) THEN issued[u] + 1 ELSE issued[u]]
       /\ inflight' = inflight \cup {<<u, issued[u] + 1>> : u \in Range(post)}
       /\ parentStatus' = IF AllDone(S) THEN "review" ELSE parentStatus
       /\ broadcasts' = IF AllDone(S) THEN <<Stranger>> ELSE <<>>
  /\ UNCHANGED <<store, evars, dvars>>
  /\ UNCHANGED vars

\* The n-th dispatch posted for subtask t is answered: a successful dispatch
\* has set the subtask to in_progress (dispatch route, lines 219-223), a
\* failed one has left its status alone.
SubtaskDispatched(t, n, ok) ==
  /\ <<t, n>> \in inflight
  /\ inflight' = inflight \ {<<t, n>>}
  /\ subtasks' = IF ok THEN [subtasks EXCEPT ![t].status = "in_progress"] ELSE subtasks
  /\ posted' = <<>>
  /\ broadcasts' = <<>>
  /\ UNCHANGED <<parentStatus, issued>>
  /\ UNCHANGED <<store, evars, dvars>>
  /\ UNCHANGED vars

\* The subtasks of a parent at work: each is waiting in the inbox or at work,
\* and depends on any set of other tasks.
SubtaskInit ==
  /\ ClientInit
  /\ sessions = [s \in 1..MaxSessions |->
                   [agent |-> 1, gwid |-> "s1", status |-> "ended", task |-> 0]]
  /\ tasks = [t \in 1..MaxTasks |-> [status |-> "review", agent |-> 0, error |-> "NULL"]]
  /\ agents = [a \in 1..MaxAgents |-> [status |-> "standby"]]
  /\ lastRunAt = 0
  /\ cachedResult = <<>>
  /\ clock = 0
  /\ rpc = [c \in 1..MaxCalls |-> "idle"]
  /\ returned = <<>>
  /\ broadcasts = <<>>
  /\ fetched = <<>>
  /\ requested = <<>>
  /\ running = FALSE
  /\ initialReconcileDone = FALSE
  /\ via = [c \in 1..MaxCalls |-> "none"]
  /\ replied = <<>>
  /\ DispatchAtRest
  /\ subtasks \in [Subtasks -> [status : {"inbox", "in_progress"},
                                deps : SUBSET (Subtasks \cup {Stranger})]]
  /\ \A t \in Subtasks : t \notin subtasks[t].deps
  /\ parentStatus = "in_progress"
  /\ issued = [t \in Subtasks |-> 0]
  /\ inflight = {}
  /\ posted = <<>>

SubtaskNext ==
  \/ \E t \in Subtasks, st \in Finished : SubtaskCompleted(t, st)
  \/ \E t \in Subtasks, n \in 1..MaxPosts, ok \in BOOLEAN : SubtaskDispatched(t, n, ok)

SubtaskSpec == SubtaskInit /\ [][SubtaskNext]_<<vars, rvars>>

\* ================================================================ claims
\* An attempt that is still in flight: its promise is unsettled and its socket
\* is the one the client holds (not replaced, not torn down by disconnect()).
InFlight(a) ==
  promise[a] = "pending" /\ ws = a /\ handlers[a] = "all"

\* C1: connect() calls issued while an attempt that callers are waiting for is
\* in flight and unsettled open no further WebSocket and join that attempt, so
\* one socket is opened and all callers share one outcome.
C1_SingleAttempt ==
  [][(Connect /\ \E a \in awaited : InFlight(a))
       => (nSock' = nSock /\ awaited' = awaited)]_vars

\* C2: as long as an attempt is in flight and authentication has not
\* completed, its 10 s connection timer is running, whether or not the socket
\* has opened (so that its expiry closes the socket and rejects connect()).
C2_TimerBoundsAttempt ==
  \A a \in Socks : (InFlight(a) /\ ~connected) => ctimer[a] = "armed"

\* C3: the flags become true and an attempt's promise resolves only in a step
\* in which a response frame resolves a pending authentication request; the
\* socket's open event changes neither flag and resolves no promise.
C3_ConnectedOnlyByAuthResponse ==
  [][/\ ( \/ (connected' /\ ~connected)
          \/ (authenticated' /\ ~authenticated)
          \/ \E a \in Socks : promise'[a] = "resolved" /\ promise[a] # "resolved" )
        => \E s \in Socks, f \in DataFrames :
             /\ SockMessage(s, f)
             /\ f.id \in pendingRequests
             /\ reqs[f.id].kind = "auth"
             /\ f.id \notin pendingRequests'
     /\ (\E s \in Socks : SockOpen(s))
        => /\ UNCHANGED <<connected, authenticated>>
           /\ \A a \in Socks : promise'[a] = "resolved" => promise[a] = "resolved"
    ]_vars

C3_Witness ==
  /\ emitted = <<"connected">>
  /\ connected /\ authenticated
  /\ \E a \in Socks : promise[a] = "resolved"

\* C4: when the gateway rejects the authentication request of the attempt in
\* flight, the socket is closed, connect() rejects with an authentication
\* failure, the client is left not connected and not authenticated, and no
\* reconnect timer gets scheduled by it.
C4_AuthRejectionIsFinal ==
  [][\A id \in pendingRequests :
       ( /\ reqs[id].kind = "auth"
         /\ reqs'[id].state = "rejected"
         /\ InFlight(reqs[id].att)
         /\ ~connected )
       => /\ rs'[ws] \notin {"CONNECTING", "OPEN"}
          /\ promise'[reqs[id].att] = "rejAuth"
          /\ ~connected' /\ ~authenticated'
          /\ (reconnectTimer' => reconnectTimer)
    ]_vars

\* C5: isConnected() is true exactly when the socket is open, the
\* authenticated flag is set and the connected flag is set.
SocketOpen == ws # 0 /\ rs[ws] = "OPEN"

C5_IsConnectedIffAllThree ==
  /\ IsConnected <=> (SocketOpen /\ authenticated /\ connected)
  /\ Cardinality({x \in {1, 2, 3} :
        (x = 1 /\ SocketOpen) \/ (x = 2 /\ authenticated) \/ (x = 3 /\ connected)}) = 2
     => ~IsConnected

\* Two of the three signals hold: the flags are set on a socket that is closing.
C5_Witness ==
  connected /\ authenticated /\ ws # 0 /\ rs[ws] = "CLOSING" /\ ~IsConnected

\* C6: a call() made while the client has no socket, or is not connected, or is
\* not authenticated throws at once and changes nothing: no request is
\* registered (so no frame is sent) and no timer is started.
C6_CallFailsFastWhenNotReady ==
  [][((ws = 0 \/ ~connected \/ ~authenticated) /\ \E m \in Methods : Call(m))
       => /\ emitted' = <<"throw: Not connected">>
          /\ UNCHANGED <<reqs, pendingRequests, sockVars, promise, connecting,
                         flagVars, autoReconnect, reconnectTimer, reconnectWait>>
    ]_vars

C6_Witness ==
  /\ emitted = <<"throw: Not connected">>
  /\ ws # 0 /\ rs[ws] = "OPEN" /\ ~authenticated

\* C7: a response frame whose id is in the table settles that request, removes
\* exactly that id and touches no other request; a response frame whose id was
\* issued but is no longer in the table (a replay) changes nothing and emits
\* no event.
IsResponse(f) == f.type = "res" /\ f.id # 0 /\ ~f.method

C7_ResponseSettlesOnce ==
  [][\A s \in Socks, f \in DataFrames :
       (IsResponse(f) /\ SockMessage(s, f))
       => IF f.id \in pendingRequests
            THEN /\ pendingRequests' = pendingRequests \ {f.id}
                 /\ reqs'[f.id].state # "pending"
                 /\ \A j \in 1..Len(reqs) : j # f.id => reqs'[j] = reqs[j]
            ELSE /\ emitted' = <<>>
                 /\ UNCHANGED <<reqs, pendingRequests, sockVars, promise, connecting,
                                flagVars, autoReconnect, reconnectTimer,
                                reconnectWait, awaited, everConnected>>
    ]_vars

\* A request has been settled by its response and is out of the table while
\* the socket is still open, so that a replay can be delivered.
C7_Witness ==
  \E id \in 1..Len(reqs) :
    /\ reqs[id].state = "resolved"
    /\ id \notin pendingRequests
    /\ ws # 0 /\ rs[ws] = "OPEN"

\* C8: for every call the response path and the timeout path exclude each
\* other.  The path that finds the request in the table removes it and settles
\* the promise (the timeout path: rejected with a timeout error naming the
\* method); a request leaves the table once, a settled promise never changes,
\* and a timer that finds the request gone changes nothing else.
IsCall(id) == id \in 1..Len(reqs) /\ reqs[id].kind = "call"

C8_ResponseXorTimeout ==
  [][\A id \in Ids : IsCall(id) =>
       /\ (CallTimeout(id) /\ id \in pendingRequests)
            => /\ id \notin pendingRequests'
               /\ reqs'[id].state = "rejTimeout"
               /\ reqs'[id].error = TimeoutError(reqs[id].method)
       /\ (CallTimeout(id) /\ id \notin pendingRequests)
            => /\ pendingRequests' = pendingRequests
               /\ reqs'[id].state = reqs[id].state
               /\ reqs'[id].error = reqs[id].error
       /\ (id \in pendingRequests /\ id \notin pendingRequests'
             /\ \E s \in Socks, f \in DataFrames : SockMessage(s, f))
            => reqs'[id].state \in {"resolved", "rejError"}
       /\ id \notin pendingRequests => id \notin pendingRequests'
       /\ reqs[id].state # "pending" => reqs'[id].state = reqs[id].state
    ]_vars

\* C9: every request that enters the table is eventually removed from it.
C9_EveryRequestRemoved ==
  \A id \in Ids : [](id \in pendingRequests => <>(id \notin pendingRequests))

\* C10: a socket close schedules a reconnect only if the connected flag was
\* set when the close event arrived and auto-reconnect is enabled; as long as
\* no connection has ever been established no reconnect timer is set.
C10_ReconnectOnlyAfterConnected ==
  [][/\ ((\E s \in Socks : SockClose(s)) /\ reconnectTimer' /\ ~reconnectTimer)
          => (connected /\ autoReconnect)
     /\ ~everConnected' => ~reconnectTimer'
    ]_vars

\* A close of an established connection has just scheduled the reconnect.
C10_Witness ==
  /\ emitted = <<"disconnected">>
  /\ reconnectTimer
  /\ ~connected

\* C11: at most one reconnect timer is outstanding, and it is the one the
\* reconnectTimer field holds; a scheduleReconnect() call made while a timer is
\* pending or while auto-reconnect is disabled starts no timer and changes
\* nothing; every timer started has the fixed delay of 10 seconds.
C11_SingleReconnectTimer ==
  /\ [](/\ Len(timers) <= 1
        /\ reconnectTimer <=> (Len(timers) = 1)
        /\ \A i \in 1..Len(timers) : timers[i] = 10000)
  /\ [][(schedLog' # <<>> /\ ~ReconnectFire /\ (reconnectTimer \/ ~autoReconnect))
          => (UNCHANGED <<timers, reconnectTimer>> /\ schedLog' # <<"scheduled">>)]_vars
  /\ [][schedLog' = <<"scheduled">>
          => (Len(timers') = 1 /\ timers'[1] = 10000 /\ reconnectTimer')]_vars

\* A scheduling request has just been made while a timer was pending.
C11_Witness ==
  /\ schedLog = <<"pending">>
  /\ reconnectTimer
  /\ Len(timers) = 1

\* C12: once a reconnect callback has started an attempt and waits for it,
\* then as long as auto-reconnect stays enabled either a connection gets
\* established or, the attempt having failed (socket error, timeout, close
\* before authentication, no challenge), another attempt gets scheduled.
C12_FailedReconnectRetried ==
  \A a \in Socks :
    [](a \in reconnectWait /\ autoReconnect
         => <>(reconnectTimer \/ connected \/ ~autoReconnect))

\* C13: when disconnect() returns, auto-reconnect is disabled, no reconnect
\* timer is pending, the connected and authenticated flags and the attempt lock
\* are cleared and isConnected() is false; the close event of the socket it
\* closed schedules no reconnect, and none is pending while auto-reconnect
\* stays disabled.
C13_DisconnectResets ==
  /\ [][Disconnect
          => /\ ~autoReconnect'
             /\ ~reconnectTimer' /\ timers' = <<>>
             /\ ~connected' /\ ~authenticated'
             /\ connecting' = 0
             /\ ~IsConnected']_vars
  /\ [][\A s \in Socks :
          (SockClose(s) /\ handlers[s] = "noclose")
          => (UNCHANGED <<timers, reconnectTimer>> /\ schedLog' = <<>>)]_vars
  /\ [](~autoReconnect => (timers = <<>> /\ ~reconnectTimer))

\* disconnect() has closed an established connection and the close event of
\* that socket has been dispatched.
C13_Witness ==
  \E s \in Socks :
    /\ handlers[s] = "noclose" /\ rs[s] = "GONE"
    /\ \E id \in 1..Len(reqs) :
         reqs[id].kind = "auth" /\ reqs[id].att = s /\ reqs[id].state = "resolved"
    /\ ~autoReconnect /\ ws = 0

\* A socket of a torn-down attempt: created, and no longer the one the client
\* holds (disconnect() dropped it or a later connect() replaced it).
Stale(s) == rs[s] # "NONE" /\ ws # s

\* C14: the callbacks of a torn-down attempt (its connection timer, its socket
\* handlers, its authentication continuation run by a frame on its socket)
\* change neither flag nor the attempt lock, and leave the socket and the
\* promise of every other attempt alone.
C14_StaleCallbacksAreNoOps ==
  [][\A s \in Socks :
       ( /\ Stale(s)
         /\ \/ ConnTimeout(s)
            \/ SockError(s)
            \/ SockClose(s)
            \/ \E f \in Frames : SockMessage(s, f) )
       => /\ UNCHANGED <<connected, authenticated, connecting>>
          /\ \A t \in Socks \ {s} : rs'[t] = rs[t] /\ promise'[t] = promise[t]
    ]_vars

\* The number of times event e is emitted in log.
Times(e, log) == Cardinality({i \in 1..Len(log) : log[i] = e})

\* C15: a frame that carries a method name and whose id, if any, is not in the
\* table is published exactly once under its method name and exactly once as
\* "notification"; a frame whose id is in the table removes and settles that
\* request and publishes nothing.
C15_NotificationsPublishedOnce ==
  [][\A s \in Socks, f \in DataFrames :
       SockMessage(s, f)
       => IF f.id # 0 /\ f.id \in pendingRequests
            THEN /\ f.id \notin pendingRequests'
                 /\ reqs'[f.id].state # "pending"
                 /\ Times("notification", emitted') = 0
                 /\ Times("method", emitted') = 0
            ELSE f.method
                 => /\ Times("notification", emitted') = 1
                    /\ Times("method", emitted') = 1
                    /\ UNCHANGED <<reqs, pendingRequests>>
    ]_vars

\* A notification has just been published while a request is pending.
C15_Witness ==
  /\ Times("notification", emitted) = 1
  /\ Times("method", emitted) = 1
  /\ pendingRequests # {}

\* A step in which a reconciliation pass ran: gw is the gateway list it used.
PassRan(gw) == fetched' = <<gw>>

\* C16: with an empty gateway list, one active session S linked to a task T
\* that carries no error, and one working agent A (every other session ended,
\* every other agent in standby, every other task in review), a pass returns
\* {ran, sessionsEnded 1, tasksErrored 1, agentsReset 1, sessionsBackfilled 0}
\* and leaves S ended, T with a dispatch-error and A in standby.
C16_EndToEnd ==
  [][\A S \in SessIds, T \in TaskIds, A \in AgentIds :
       ( /\ PassRan({})
         /\ \A s \in SessIds : sessions[s].status = "active" <=> s = S
         /\ sessions[S].task = T
         /\ tasks[T].error = Null
         /\ \A t \in TaskIds \ {T} : tasks[t].status = "review"
         /\ \A a \in AgentIds : agents[a].status = "working" <=> a = A )
       => /\ returned' = <<Result(TRUE, 1, 1, 1, 0, "")>>
          /\ sessions'[S].status = "ended"
          /\ tasks'[T].error # Null
          /\ agents'[A].status = "standby"
    ]_<<vars, rvars>>

\* The local sessions that are active and have no gateway entry under their
\* id, under their routing key, or under their routing key used as id.
Unmatched(gw) ==
  {s \in SessIds :
     /\ sessions[s].status = "active"
     /\ ~\E g \in gw : \/ g.id = sessions[s].gwid
                       \/ g.key = "agent:main:" \o sessions[s].gwid
                       \/ g.id = "agent:main:" \o sessions[s].gwid}

\* C17: a pass ends every unmatched active session and counts each once in
\* sessionsEnded; a linked task without a dispatch-error gets one and is
\* counted; a linked task that already carries a dispatch-error keeps it, is
\* not queued for notification and is not counted in tasksErrored.
C17_StaleSessionsEnded ==
  [][\A gw \in GatewayLists :
       PassRan(gw)
       => /\ \A s \in Unmatched(gw) : sessions'[s].status = "ended"
          /\ returned'[1].sessionsEnded = Cardinality(Unmatched(gw))
          /\ \A s \in Unmatched(gw) :
               LET t == sessions[s].task
               IN t # 0 =>
                    IF tasks[t].error = Null
                      THEN /\ tasks'[t].error = SessionLost
                           /\ Times(t, broadcasts') >= 1
                           /\ returned'[1].tasksErrored >= 1
                      ELSE /\ tasks'[t].error = tasks[t].error
                           /\ Times(t, broadcasts') = 0
                           /\ returned'[1].tasksErrored =
                                Cardinality({u \in TaskIds :
                                  tasks[u].error = Null /\ tasks'[u].error # Null})
    ]_<<vars, rvars>>

\* C18: an active session whose gateway session id is the id of a listed
\* session, or whose 'agent:main:'+id is the key of a listed session, or whose
\* 'agent:main:'+id is the id of a listed session, is still active after the
\* pass.
C18_MatchedSessionsKept ==
  [][\A gw \in GatewayLists :
       PassRan(gw)
       => \A s \in SessIds :
            ( /\ sessions[s].status = "active"
              /\ \/ \E g \in gw : g.id = sessions[s].gwid
                 \/ \E g \in gw : g.key = "agent:main:" \o sessions[s].gwid
                 \/ \E g \in gw : g.id = "agent:main:" \o sessions[s].gwid )
            => sessions'[s].status = "active"
    ]_<<vars, rvars>>

\* A pass has kept the first session on the strength of its routing key
\* listed as a session id, and has ended the second.
C18_Witness ==
  /\ fetched = <<{Entry("agent:main:s1", "")}>>
  /\ sessions[1].status = "active"
  /\ sessions[2].status = "ended"
  /\ returned # <<>> /\ returned[1].sessionsEnded = 1

\* C19: no step changes the dispatch-error of a task that carries one,
\* whichever step of a pass touches the task and however many passes run.
C19_FirstWriterWins ==
  [][\A t \in TaskIds : tasks[t].error # Null => tasks'[t].error = tasks[t].error
    ]_<<vars, rvars>>

\* Both calls have returned, and a task that carries the error text of a
\* failed dispatch has gone through an UPDATE of the latest pass intact.
C19_Witness ==
  /\ \A c \in Calls : rpc[c] = "done"
  /\ fetched # <<>>
  /\ \E t \in TaskIds : tasks[t].error = DispatchFailed /\ Times(t, broadcasts) >= 1

\* The agents that have a session which is active in the snapshot of the pass
\* and matched on the gateway.
Covered(gw) ==
  {a \in AgentIds :
     \E s \in SessIds : /\ sessions[s].status = "active"
                        /\ sessions[s].agent = a
                        /\ s \notin Unmatched(gw)}

\* C20: when the orphaned-task step examines a task that is assigned or in
\* progress, has an agent and carries no dispatch-error then (none before the
\* pass and none from the stale-session step), it flags the task 'Agent session
\* lost' if the agent has no active, gateway-matched session, and leaves the
\* task as the stale-session step left it if the agent has one.
C20_OrphanedTasksFlagged ==
  [][\A gw \in GatewayLists :
       PassRan(gw)
       => \A t \in TaskIds :
            ( /\ tasks[t].status \in {"in_progress", "assigned"}
              /\ tasks[t].agent # 0 )
            => /\ ( /\ AfterC(Snapshot, gw).T[t].error = Null
                    /\ tasks[t].agent \notin Covered(gw) )
                  => tasks'[t].error = "Agent session lost"
               /\ tasks[t].agent \in Covered(gw)
                  => /\ tasks'[t].error = AfterC(Snapshot, gw).T[t].error
                     /\ Times(t, broadcasts') = Times(t, AfterC(Snapshot, gw).notify)
    ]_<<vars, rvars>>

\* A pass has flagged a task 'Agent session lost' while a session of another
\* agent was matched on the gateway.
C20_Witness ==
  /\ fetched # <<>> /\ fetched[1] # {}
  /\ \E t \in TaskIds : tasks[t].error = AgentSessionLost /\ Times(t, broadcasts) = 1
  /\ \E s \in SessIds : sessions[s].status = "active"

\* The active sessions that are linked to no task, and the tasks of an agent
\* that are in progress.
Unlinked == {s \in SessIds : sessions[s].status = "active" /\ sessions[s].task = 0}
Current(a) == {t \in TaskIds : tasks[t].status = "in_progress" /\ tasks[t].agent = a}

\* C21: a pass links an active session that has no task to the in_progress
\* task of its agent if and only if the agent has exactly one such task; with
\* none or several the link stays empty; sessionsBackfilled counts exactly the
\* sessions linked.
C21_BackfillIffExactlyOne ==
  [][\A gw \in GatewayLists :
       PassRan(gw)
       => /\ \A s \in Unlinked :
               IF Cardinality(Current(sessions[s].agent)) = 1
                 THEN sessions'[s].task \in Current(sessions[s].agent)
                 ELSE sessions'[s].task = 0
          /\ returned'[1].sessionsBackfilled =
               Cardinality({s \in Unlinked : Cardinality(Current(sessions[s].agent)) = 1})
    ]_<<vars, rvars>>

\* The agents that have a task which is in progress or assigned.
Busy == {a \in AgentIds :
           \E t \in TaskIds : tasks[t].status \in {"in_progress", "assigned"} /\ tasks[t].agent = a}

\* C22 as stated: a pass sets a working agent to standby exactly when the agent
\* has neither an active, gateway-matched session nor a task in status
\* in_progress, and agentsReset counts these agents.
C22_IdleAgentsReset_InProgressOnly ==
  [][\A gw \in GatewayLists :
       PassRan(gw)
       => /\ \A a \in AgentIds :
               agents[a].status = "working"
               => agents'[a].status =
                    IF a \in Covered(gw) \/ Current(a) # {} THEN "working" ELSE "standby"
          /\ returned'[1].agentsReset =
               Cardinality({a \in AgentIds : /\ agents[a].status = "working"
                                             /\ a \notin Covered(gw)
                                             /\ Current(a) = {}})
    ]_<<vars, rvars>>

\* C22, amended: a pass sets a working agent to standby exactly when the agent
\* has neither an active, gateway-matched session nor a task in status
\* in_progress or assigned; agentsReset counts these agents, each once, and
\* every other working agent is left working.
C22_IdleAgentsReset ==
  [][\A gw \in GatewayLists :
       PassRan(gw)
       => /\ \A a \in AgentIds :
               agents[a].status = "working"
               => agents'[a].status =
                    IF a \in Covered(gw) \/ a \in Busy THEN "working" ELSE "standby"
          /\ returned'[1].agentsReset =
               Cardinality({a \in AgentIds : /\ agents[a].status = "working"
                                             /\ a \notin Covered(gw)
                                             /\ a \notin Busy})
    ]_<<vars, rvars>>

\* A pass has reset one agent and has left working an agent whose only claim
\* to it is a task in status 'assigned'.
C22_Witness ==
  /\ fetched = <<{}>>
  /\ returned # <<>> /\ returned[1].agentsReset = 1
  /\ \E a \in AgentIds : /\ agents[a].status = "working"
                         /\ Current(a) = {}
                         /\ a \in Busy
  /\ \E a \in AgentIds : agents[a].status = "standby" /\ a \notin Busy

\* C23: a pass that directly follows a pass against the same gateway list,
\* with no other writer in between, changes no row of the three tables,
\* broadcasts nothing and returns all four counters as zero.
C23_Idempotent ==
  [][\A gw \in GatewayLists :
       (fetched = <<gw>> /\ PassRan(gw))
       => /\ UNCHANGED <<sessions, tasks, agents>>
          /\ broadcasts' = <<>>
          /\ returned' = <<Result(TRUE, 0, 0, 0, 0, "")>>
    ]_<<vars, rvars>>

\* The latest step was a pass that found nothing to repair, against a list
\* that has the first session and not the second, in a store where the other
\* call's pass, against such a list, had ended the second session and flagged
\* its task.
C23_Witness ==
  /\ fetched = <<{Entry("s1", "")}>>
  /\ returned = <<Result(TRUE, 0, 0, 0, 0, "")>>
  /\ \A c \in Calls : rpc[c] = "done"
  /\ sessions[1].status = "active"
  /\ sessions[2].status = "ended" /\ sessions[2].task # 0
  /\ tasks[sessions[2].task].error = SessionLost

\* C24: in the result of every pass each counter is the number of rows its
\* repair changed in that pass: sessions that went from active to ended, tasks
\* whose dispatch-error went from empty to set, agents that went from working
\* to standby, sessions whose task link went from empty to set.
C24_CountersAreRowsChanged ==
  [][\A gw \in GatewayLists :
       (PassRan(gw) /\ returned'[1].ran)
       => /\ returned'[1].sessionsEnded =
               Cardinality({s \in SessIds : /\ sessions[s].status = "active"
                                            /\ sessions'[s].status = "ended"})
          /\ returned'[1].tasksErrored =
               Cardinality({t \in TaskIds : /\ tasks[t].error = Null
                                            /\ tasks'[t].error # Null})
          /\ returned'[1].agentsReset =
               Cardinality({a \in AgentIds : /\ agents[a].status = "working"
                                             /\ agents'[a].status = "standby"})
          /\ returned'[1].sessionsBackfilled =
               Cardinality({s \in SessIds : /\ sessions[s].task = 0
                                            /\ sessions'[s].task # 0})
    ]_<<vars, rvars>>

\* C25: the tasks a pass broadcasts as task_updated are exactly the tasks
\* whose dispatch-error the pass has set, each once, and a task that carried a
\* dispatch-error before the pass is not among them; a step that runs no pass
\* broadcasts nothing.
C25_BroadcastNewlyFlagged ==
  [][/\ \A gw \in GatewayLists :
          PassRan(gw)
          => \A t \in TaskIds :
               Times(t, broadcasts') =
                 IF tasks[t].error = Null /\ tasks'[t].error # Null THEN 1 ELSE 0
     /\ fetched' = <<>> => broadcasts' = <<>>
    ]_<<vars, rvars>>

\* A step in which call c of reconcile() is made.
Called(c) == rpc[c] = "idle" /\ rpc'[c] # "idle"

C27_GatewayFailureWritesNothing ==
  [][\A c \in Calls, msg \in GatewayErrors :
       GatewayFails(c, msg)
       => /\ returned' = <<[ran |-> FALSE, sessionsEnded |-> 0, tasksErrored |-> 0,
                            agentsReset |-> 0, sessionsBackfilled |-> 0, error |-> msg]>>
          /\ UNCHANGED <<sessions, tasks, agents, lastRunAt, cachedResult>>
          /\ broadcasts' = <<>>
    ]_<<vars, rvars>>

\* The first call has just failed at the gateway with a timeout of
\* sessions.list; the drifted store is as it was.
C27_Witness ==
  /\ returned # <<>> /\ returned[1].error = "Request timeout: sessions.list"
  /\ ~returned[1].ran
  /\ requested = <<"connect", "sessions.list">>
  /\ rpc[1] = "done"
  /\ cachedResult = <<>>
  /\ sessions[1].status = "active" /\ agents[1].status = "working"

\* C28: no call of reconcile() ends with its promise rejected; every failure,
\* an error raised by the local store included, ends in a returned result.
C28_NeverThrows ==
  \A c \in Calls : rpc[c] # "threw"

\* C29: no step of a reconcile() call changes the status or the agent of a
\* task, clears a dispatch-error, sets an agent to working or makes an ended
\* session active, and the only client methods a call invokes are connect()
\* and the sessions.list request.
C29_NonDestructive ==
  [][/\ \A t \in TaskIds :
          /\ tasks'[t].status = tasks[t].status
          /\ tasks'[t].agent = tasks[t].agent
          /\ tasks[t].error # Null => tasks'[t].error # Null
     /\ \A a \in AgentIds : agents'[a].status = "working" => agents[a].status = "working"
     /\ \A s \in SessIds : sessions[s].status = "ended" => sessions'[s].status = "ended"
     /\ \A i \in 1..Len(requested') : requested'[i] \in {"connect", "sessions.list"}
    ]_<<vars, rvars>>

\* A pass has ended both sessions, flagged an in_progress task that is still
\* in progress for its agent, kept the error another task carried, and reset
\* an agent, having invoked connect() and sessions.list.
C29_Witness ==
  /\ fetched = <<{}>>
  /\ requested = <<"connect", "sessions.list">>
  /\ returned # <<>> /\ returned[1].sessionsEnded = 2 /\ returned[1].agentsReset = 1
  /\ \E t \in TaskIds : /\ tasks[t].status = "in_progress" /\ tasks[t].agent # 0
                        /\ tasks[t].error = AgentSessionLost
  /\ \E t \in TaskIds : tasks[t].error = DispatchFailed

\* The calls of reconcile() that are in progress.
InProgress == {c \in Calls : rpc[c] = "gateway"}

\* C30: a request to GET /api/reconcile that arrives while another is awaiting
\* reconcile() answers 'already running' and makes no call; the lock is
\* released in the step in which the awaited call returns or throws; and at
\* most one call of reconcile() is in progress at any time.
C30_RouteLock ==
  /\ [][\A c \in Calls :
          (RouteGet(c) /\ \E d \in Calls : via[d] = "route" /\ rpc[d] = "gateway")
          => (replied' = <<AlreadyRunning>> /\ UNCHANGED rpc)]_<<vars, rvars>>
  /\ [][\A c \in Calls :
          (via[c] = "route" /\ rpc[c] = "gateway" /\ rpc'[c] # "gateway")
          => ~running']_<<vars, rvars>>
  /\ [](Cardinality(InProgress) <= 1)

\* C34: the promise of every connect() attempt is eventually settled,
\* whatever the gateway does and whether or not disconnect() is called while
\* the attempt is in flight.
C34_ConnectSettles ==
  \A a \in Socks : [](promise[a] = "pending" => <>(promise[a] # "pending"))

\* The sockets on which an authentication request has been resolved.
AuthenticatedOn == {reqs[id].att : id \in {i \in 1..Len(reqs) :
                      reqs[i].kind = "auth" /\ reqs[i].state = "resolved"}}

\* C35: whenever isConnected() is true the socket the client holds is one on
\* which the authentication handshake has succeeded, and a frame delivered on
\* a socket the client no longer holds sets neither flag.
C35_ConnectedOnAuthenticatedSocket ==
  /\ [](IsConnected => ws \in AuthenticatedOn)
  /\ [][\A s \in Socks, f \in DataFrames :
          (SockMessage(s, f) /\ ws # s)
          => /\ connected' => connected
             /\ authenticated' => authenticated]_vars

\* C36: a frame of type 'res' whose id is in the table, for a request whose
\* promise is unsettled, rejects the request when its ok field is false, with or without an error object, and resolves
\* it otherwise; a frame with ok = false resolves no request and sets neither
\* flag.
C36_NotOkRejects ==
  [][\A s \in Socks, f \in DataFrames :
       (SockMessage(s, f) /\ f.type = "res" /\ Matches(f) /\ reqs[f.id].state = "pending")
       => IF f.ok
            THEN reqs'[f.id].state = "resolved"
            ELSE /\ reqs'[f.id].state \notin {"resolved", "pending"}
                 /\ connected' => connected
                 /\ authenticated' => authenticated
    ]_vars

\* C37: lastRunAt and the cached result change only in a step that completes
\* a pass, which sets them to the time of that step and to the ran = true
\* result it returns; a call that fails at the gateway (or in the store) and a
\* call answered from the cache leave both as they were, so a cached result
\* is always the result of a completed pass.
C37_CacheWrittenByCompletedPass ==
  /\ [][IF fetched' # <<>>
          THEN /\ returned'[1].ran
               /\ cachedResult' = returned'
               /\ lastRunAt' = clock
          ELSE UNCHANGED <<lastRunAt, cachedResult>>
       ]_<<vars, rvars>>
  /\ [][\A c \in Calls, msg \in GatewayErrors :
          GatewayFails(c, msg) => UNCHANGED <<lastRunAt, cachedResult>>
       ]_<<vars, rvars>>
  /\ [](cachedResult # <<>> => (cachedResult[1].ran /\ cachedResult[1].error = ""))

\* A call has just failed at the gateway more than 30 s after the pass whose
\* result is cached: the cache and the timestamp are still those of the pass.
C37_Witness ==
  /\ returned # <<>> /\ returned[1].error # "" /\ ~returned[1].ran
  /\ cachedResult # <<>> /\ cachedResult[1].ran
  /\ clock - lastRunAt >= DEBOUNCE_MS
  /\ lastRunAt = DEBOUNCE_MS

\* C38: a session that a pass ends in its stale-session step keeps the task
\* link it had, and sessionsBackfilled counts only sessions that are active
\* when the pass ends.
C38_EndedSessionsNotBackfilled ==
  [][\A gw \in GatewayLists :
       PassRan(gw)
       => /\ \A s \in Unmatched(gw) : sessions'[s].task = sessions[s].task
          /\ returned'[1].sessionsBackfilled =
               Cardinality({s \in SessIds : /\ sessions'[s].status = "active"
                                            /\ sessions[s].task = 0
                                            /\ sessions'[s].task # 0})
    ]_<<vars, rvars>>
\* The dispatch of d ends in this step with the answer code.
Ends(d, code) ==
  /\ dsp[d].pc # "done"
  /\ dsp'[d].pc = "done"
  /\ dreply' = <<code>>

\* C31: when the chat.send of a dispatch is rejected or times out, the step
\* that handles the rejection records a 'Dispatch failed: ...' dispatch error
\* on the dispatched task, leaves the status of every task and of every agent
\* as it was, broadcasts the update of that task, and answers 500: the
\* rejection does not leave the route without the error being recorded.
C31_RejectionRecorded ==
  [][\A d \in Dispatches :
       (dsp[d].pc = "send" /\ Ends(d, 500))
       => /\ tasks'[dsp[d].task].error \in {DispatchError(msg) : msg \in ChatErrors}
          /\ \A t \in TaskIds : tasks'[t].status = tasks[t].status
          /\ \A t \in TaskIds \ {dsp[d].task} : tasks'[t] = tasks[t]
          /\ agents' = agents
          /\ sessions' = sessions
          /\ broadcasts' = <<dsp[d].task>>]_<<vars, rvars>>

\* A rejected dispatch of a task that had no dispatch error has answered.
C31_Witness ==
  /\ dreply = <<500>>
  /\ \E d \in Dispatches :
       /\ dsp[d].pc = "done"
       /\ dsp[d].sess # 0
       /\ tasks[dsp[d].task].error = DispatchError("agent unavailable")
       /\ tasks[dsp[d].task].status = "assigned"
\* The active local sessions of agent a.
ActiveOf(a) == {s \in SessIds : sessions[s].status = "active" /\ sessions[s].agent = a}

\* C32: starting from stores in which every agent has at most one active
\* local session, after any interleaving of dispatch requests and
\* reconciliation passes every agent still has at most one active session.
C32_OneActiveSessionPerAgent ==
  \A a \in AgentIds : Cardinality(ActiveOf(a)) <= 1

\* Two dispatches to the same agent have both gone through the session step
\* and use the same session, the second of them created by the first.
C32_Witness ==
  /\ dsp[1].pc \in {"send", "done"} /\ dsp[1].sess # 0
  /\ dsp[2].pc \in {"send", "done"} /\ dsp[2].sess # 0
  /\ dsp[1].agent = dsp[2].agent
  /\ dsp[1].sess = dsp[2].sess
  /\ dsp[1].made /\ ~dsp[2].made
  /\ sessions[dsp[2].sess].status = "active"
  /\ sessions[dsp[2].sess].task = dsp[2].task
\* C33: a reconciliation pass interleaved with a dispatch does not end the
\* session the dispatch has created: when a dispatch that inserted an active
\* session completes after its chat.send succeeded, that session is still
\* active, and the task, now in_progress, has an active session of its agent.
C33_CreatedSessionSurvives ==
  [][\A d \in Dispatches :
       (dsp[d].pc = "send" /\ dsp[d].made /\ Ends(d, 200))
       => /\ sessions'[dsp[d].sess].status = "active"
          /\ tasks'[dsp[d].task].status = "in_progress"
          /\ \E s \in SessIds : /\ sessions'[s].status = "active"
                                /\ sessions'[s].agent = dsp[d].agent]_<<vars, rvars>>
\* C39: onSubtaskCompleted posts a dispatch for a sibling only if that sibling
\* is in inbox, has a non-empty dependency list and every listed dependency is
\* a sibling in review or done; and it moves the parent to review only if
\* every subtask of the parent is in review or done.
C39_DispatchOnlyUnblocked ==
  [][/\ \A t \in Subtasks :
          issued'[t] # issued[t]
          => /\ issued'[t] = issued[t] + 1
             /\ subtasks'[t].status = "inbox"
             /\ subtasks'[t].deps # {}
             /\ \A dep \in subtasks'[t].deps :
                  dep \in Subtasks /\ subtasks'[dep].status \in {"review", "done"}
     /\ parentStatus' # parentStatus
          => /\ parentStatus' = "review"
             /\ \A t \in Subtasks : subtasks'[t].status \in {"review", "done"}]_<<vars, rvars>>

\* A call has posted the dispatch of a subtask with two dependencies, and the
\* parent is still at work.
C39_Witness ==
  /\ posted # <<>>
  /\ \E t \in Range(posted) :
       /\ Cardinality(subtasks[t].deps) = 2
       /\ subtasks[t].status = "inbox"
       /\ issued[t] = 1
  /\ parentStatus = "in_progress"

\* C40: a dependent subtask is dispatched automatically at most once: over
\* any interleaving of onSubtaskCompleted calls for its siblings and of
\* dispatches in flight, at most one dispatch is posted for a subtask.
C40_DispatchedAtMostOnce ==
  \A t \in Subtasks : issued[t] <= 1
====
